---- MODULE Spec2Model ----
(***************************************************************************)
(* Hierarchical page tables of VirtualMemory.cpp: address decomposition,   *)
(* the depth-first scan, the three-priority frame allocator, the walker    *)
(* and the public VMread / VMwrite, over a word-addressable physical       *)
(* memory with a swap store (PMread, PMwrite, PMevict, PMrestore).         *)
(***************************************************************************)
EXTENDS Integers, Sequences, FiniteSets, TLC

VARIABLES
    cfg,        \* the configuration of the build (MemoryConstants.h)
    RAM,        \* physical memory, indexed by physical word address
    swapFile,   \* swap store: page -> <<>> (no copy) or the page's words
    pc,         \* position of the single thread of control
    op,         \* the public call in progress / last completed
    level,      \* walk: loop variable
    frame,      \* walk: current frame
    newFrame,   \* walk: frame returned by allocateFrame
    path,       \* frames the current walk went through, root first
    branch,     \* which priority the last allocateFrame applied
    calls,      \* PMwrite / PMevict / PMrestore calls made by the current public call
    result,     \* return value and *value of the last completed call
    shadow,     \* last value written to each virtual address, -1 if none
    trace,      \* the public calls made so far, as <<kind, address>>
    atEntry,    \* RAM and swap store when the current public call was entered
    before      \* RAM, swap store and length of calls when allocateFrame was last entered

vars == <<cfg, RAM, swapFile, pc, op, level, frame, newFrame, path, branch,
          calls, result, shadow, trace, atEntry, before>>

(* ------------------------------ bounds --------------------------------- *)
MaxOps == 3         \* public calls per run, tables of depth 1 and 2
MaxOpsDeep == 2     \* public calls per run, tables of depth 3
ScenarioOps == 3    \* public calls per run of the example scenario

(* --------------------------- configuration ----------------------------- *)
ZERO == 0
UINT64_MAX == 2147483647   \* the "not found" marker; above every frame index and page

OFFSET_WIDTH == cfg.OFFSET_WIDTH
TABLES_DEPTH == cfg.TABLES_DEPTH
NUM_FRAMES == cfg.NUM_FRAMES
PAGE_SIZE == 2 ^ OFFSET_WIDTH
NUM_PAGES == 2 ^ (OFFSET_WIDTH * TABLES_DEPTH)
VIRTUAL_MEMORY_SIZE == NUM_PAGES * PAGE_SIZE

Config(w, d, n) == [OFFSET_WIDTH |-> w, TABLES_DEPTH |-> d, NUM_FRAMES |-> n]

\* builds in which one root-to-leaf chain fits in physical memory
ValidConfigs == { Config(1, 1, 2), Config(1, 2, 3), Config(1, 3, 4) }

\* builds with frames to spare: several pages are resident together
RoomyConfigs == { Config(1, 1, 3), Config(1, 2, 4), Config(1, 2, 5) }

\* builds with as few frames as one, next to builds with enough
AnyConfigs ==
    { Config(1, 1, 1), Config(1, 2, 1), Config(1, 2, 2), Config(1, 3, 3),
      Config(1, 1, 2), Config(1, 2, 3) }

\* branching factor 4, depth 2: 16 pages
ScenarioConfigs == { Config(2, 2, 3), Config(2, 2, 5) }
ScenarioPages == {0, 4, 8}

\* builds whose runs are replayed call by call
ReplayConfigs == { Config(1, 1, 3), Config(1, 2, 3) }

\* builds in which walk is called with create = false
LookupConfigs == { Config(1, 1, 2), Config(1, 2, 3) }

\* rings of 2, 8 and 16 pages
DistanceConfigs == { Config(1, 1, 2), Config(1, 3, 4), Config(2, 2, 5) }

Min(a, b) == IF a < b THEN a ELSE b
Max(a, b) == IF a > b THEN a ELSE b

(* ------------------------- address decomposition ----------------------- *)
phys(f, row) == f * PAGE_SIZE + row

offsetOf(va) == va % PAGE_SIZE

\* indexAtLevel with the offset bits not skipped
indexAtLevelNoOffset(va, lvl) ==
    LET k == OFFSET_WIDTH * (TABLES_DEPTH - 1 - lvl)
    IN  (va \div (2 ^ k)) % PAGE_SIZE

indexAtLevel(va, lvl) ==
    LET k == OFFSET_WIDTH + OFFSET_WIDTH * (TABLES_DEPTH - 1 - lvl)
    IN  (va \div (2 ^ k)) % PAGE_SIZE

\* pageOf with the bits of the last table level dropped as well
pageOfShiftedTwice(va) == va \div (PAGE_SIZE * PAGE_SIZE)

pageOf(va) == va \div PAGE_SIZE

(* ---------------------- physical memory and swap ----------------------- *)
\* A memory state m is [RAM, swapFile, calls].
PMread(m, addr) == m.RAM[addr]

PMwrite(m, addr, v) ==
    [m EXCEPT !.RAM[addr] = v,
              !.calls = Append(@, <<"PMwrite", addr, v>>)]

frameWords(m, f) == [i \in 0 .. PAGE_SIZE - 1 |-> m.RAM[phys(f, i)]]

PMevict(m, f, page) ==
    [m EXCEPT !.swapFile[page] = <<frameWords(m, f)>>,
              !.calls = Append(@, <<"PMevict", f, page>>)]

RECURSIVE loadWords(_, _, _, _)
\* the words of a saved page copied into frame f, from word i on
loadWords(ram, f, words, i) ==
    IF i >= PAGE_SIZE THEN ram
    ELSE loadWords([ram EXCEPT ![phys(f, i)] = words[i]], f, words, i + 1)

PMrestore(m, f, page) ==
    LET logged == [m EXCEPT !.calls = Append(@, <<"PMrestore", f, page>>)]
    IN  IF page \notin DOMAIN m.swapFile \/ m.swapFile[page] = <<>>
        THEN logged
        ELSE [logged EXCEPT
                !.RAM = loadWords(m.RAM, f, m.swapFile[page][1], 0),
                !.swapFile[page] = <<>>]

RECURSIVE clearRows(_, _, _)
clearRows(m, f, i) ==
    IF i >= PAGE_SIZE THEN m
    ELSE clearRows(PMwrite(m, phys(f, i), 0), f, i + 1)

\* clearFrame with leaves zeroed as well
clearFrameAlways(m, f, isLeaf) == clearRows(m, f, 0)

clearFrame(m, f, isLeaf) == IF isLeaf THEN m ELSE clearRows(m, f, 0)

(* ------------------------------ DFS scan ------------------------------- *)
scanInfo ==
    [emptyFrame |-> UINT64_MAX, emptyParent |-> UINT64_MAX,
     emptyRowInParent |-> UINT64_MAX,
     maxFrame |-> ZERO,
     victimFrame |-> UINT64_MAX, victimParent |-> UINT64_MAX,
     victimRowInParent |-> ZERO, victimPage |-> ZERO, victimDistance |-> ZERO]

\* cyclicDistance with the way round the ring taken always
cyclicDistanceNoMin(a, b) ==
    LET diff == IF a > b THEN a - b ELSE b - a
    IN  NUM_PAGES - diff

\* cyclicDistance with the difference taken one way only
cyclicDistanceOneWay(a, b) ==
    LET diff == a - b
    IN  Min(diff, NUM_PAGES - diff)

cyclicDistance(a, b) ==
    LET diff == IF a > b THEN a - b ELSE b - a
    IN  Min(diff, NUM_PAGES - diff)

\* considerVictim with >= for >: the last of the farthest pages is kept
considerVictimLast(info, f, row, entry, newPrefix, targetPage) ==
    LET dist == cyclicDistance(newPrefix, targetPage)
    IN  IF dist >= info.victimDistance
        THEN [info EXCEPT !.victimDistance = dist, !.victimFrame = entry,
                          !.victimPage = newPrefix, !.victimRowInParent = row,
                          !.victimParent = f]
        ELSE info

\* considerVictim with the assignment of victimFrame left out
considerVictimNoFrame(info, f, row, entry, newPrefix, targetPage) ==
    LET dist == cyclicDistance(newPrefix, targetPage)
    IN  IF dist > info.victimDistance
        THEN [info EXCEPT !.victimDistance = dist,
                          !.victimPage = newPrefix, !.victimRowInParent = row,
                          !.victimParent = f]
        ELSE info

\* lines 129-136: a leaf entry replaces the candidate only when strictly farther
considerVictim(info, f, row, entry, newPrefix, targetPage) ==
    LET dist == cyclicDistance(newPrefix, targetPage)
    IN  IF dist > info.victimDistance
        THEN [info EXCEPT !.victimDistance = dist, !.victimFrame = entry,
                          !.victimPage = newPrefix, !.victimRowInParent = row,
                          !.victimParent = f]
        ELSE info

\* lines 145-150: the first all-zero non-root table seen is remembered
rememberEmpty(info, f, allZero) ==
    IF allZero /\ f # ZERO /\ info.emptyFrame = UINT64_MAX
    THEN [info EXCEPT !.emptyFrame = f, !.emptyParent = UINT64_MAX,
                      !.emptyRowInParent = 0]
    ELSE info

\* lines 153-168: the table holding an entry equal to emptyFrame is its parent
RECURSIVE fillEmptyParent(_, _, _, _)
fillEmptyParent(m, info, f, row) ==
    IF row >= PAGE_SIZE THEN info
    ELSE IF PMread(m, phys(f, row)) = info.emptyFrame
         THEN [info EXCEPT !.emptyParent = f, !.emptyRowInParent = row]
         ELSE fillEmptyParent(m, info, f, row + 1)

RECURSIVE scan(_, _, _, _, _, _, _), scanRows(_, _, _, _, _, _, _, _)
\* lines 107-138: the row loop; st is [info, allZero]
scanRows(m, f, depth, pagePrefix, targetPage, st, parentFrame, row) ==
    IF row >= PAGE_SIZE THEN st
    ELSE LET entry == PMread(m, phys(f, row))
         IN  IF entry = ZERO
             THEN scanRows(m, f, depth, pagePrefix, targetPage, st, parentFrame, row + 1)
             ELSE LET i1 == [st.info EXCEPT !.maxFrame = Max(@, entry)]
                      newPrefix == pagePrefix * PAGE_SIZE + row
                      i2 == IF depth + 1 < TABLES_DEPTH
                            THEN scan(m, entry, depth + 1, newPrefix, targetPage, i1,
                                      parentFrame)
                            ELSE considerVictim(i1, f, row, entry, newPrefix, targetPage)
                  IN  scanRows(m, f, depth, pagePrefix, targetPage,
                               [info |-> i2, allZero |-> FALSE], parentFrame, row + 1)

\* scan with the early return for the all-zero parent (lines 140-143) left out
scanNoParentCheck(m, f, depth, pagePrefix, targetPage, info, parentFrame) ==
    LET st == scanRows(m, f, depth, pagePrefix, targetPage,
                       [info |-> info, allZero |-> TRUE], parentFrame, 0)
        i1 == rememberEmpty(st.info, f, st.allZero)
    IN  IF i1.emptyFrame # UINT64_MAX /\ i1.emptyParent = UINT64_MAX
        THEN fillEmptyParent(m, i1, f, 0)
        ELSE i1

scan(m, f, depth, pagePrefix, targetPage, info, parentFrame) ==
    LET st == scanRows(m, f, depth, pagePrefix, targetPage,
                       [info |-> info, allZero |-> TRUE], parentFrame, 0)
    IN  IF st.allZero /\ f = parentFrame
        THEN st.info
        ELSE LET i1 == rememberEmpty(st.info, f, st.allZero)
             IN  IF i1.emptyFrame # UINT64_MAX /\ i1.emptyParent = UINT64_MAX
                 THEN fillEmptyParent(m, i1, f, 0)
                 ELSE i1

(* --------------------------- frame allocator --------------------------- *)
\* canReuse with = for # in the comparison with the parent
canReuseOnlyParent(info, parentFrame) ==
    info.emptyFrame # UINT64_MAX /\ info.emptyFrame = parentFrame

canReuse(info, parentFrame) ==
    info.emptyFrame # UINT64_MAX /\ info.emptyFrame # parentFrame

\* canTakeFresh with the last frame never handed out
canTakeFreshShort(info) == info.maxFrame + 2 < NUM_FRAMES

\* canTakeFresh with <= for <
canTakeFreshLoose(info) == info.maxFrame + 1 <= NUM_FRAMES

canTakeFresh(info) == info.maxFrame + 1 < NUM_FRAMES

\* freshFrame off by one
freshFrameOffByOne(info) == info.maxFrame

\* freshFrame with one frame skipped
freshFrameSkip(info) == info.maxFrame + 2

freshFrame(info) == info.maxFrame + 1

\* detachEmpty with the entry of the old parent left in place
detachEmptyNoUnlink(m, info, isLeaf) == clearFrame(m, info.emptyFrame, isLeaf)

\* lines 192-193
detachEmpty(m, info, isLeaf) ==
    clearFrame(PMwrite(m, phys(info.emptyParent, info.emptyRowInParent), 0),
               info.emptyFrame, isLeaf)

\* evictVictim with the page not saved to swap
evictVictimNoSwap(m, info, isLeaf) ==
    clearFrame(PMwrite(m, phys(info.victimParent, info.victimRowInParent), 0),
               info.victimFrame, isLeaf)

\* evictVictim with the whole table of the victim's parent zeroed
evictVictimWholeTable(m, info, isLeaf) ==
    clearFrame(clearFrame(PMevict(m, info.victimFrame, info.victimPage),
                          info.victimParent, FALSE),
               info.victimFrame, isLeaf)

\* lines 207-209
evictVictim(m, info, isLeaf) ==
    clearFrame(PMwrite(PMevict(m, info.victimFrame, info.victimPage),
                       phys(info.victimParent, info.victimRowInParent), 0),
               info.victimFrame, isLeaf)

\* Result: [m, frame, branch]. The eviction branch with no victim recorded
\* passes UINT64_MAX to PMevict and PMwrite: its outcome is not defined, and
\* it is returned as branch "novictim" with memory untouched.
allocateFrame(m, parentFrame, ParentRow, targetPage, isLeaf) ==
    LET info == scan(m, 0, 0, 0, targetPage, scanInfo, parentFrame)
    IN  IF canReuse(info, parentFrame)
        THEN [m |-> detachEmpty(m, info, isLeaf),
              frame |-> info.emptyFrame, branch |-> "reuse"]
        ELSE IF canTakeFresh(info)
        THEN [m |-> clearFrame(m, freshFrame(info), isLeaf),
              frame |-> freshFrame(info), branch |-> "fresh"]
        ELSE IF info.victimFrame = UINT64_MAX
        THEN [m |-> m, frame |-> UINT64_MAX, branch |-> "novictim"]
        ELSE [m |-> evictVictim(m, info, isLeaf),
              frame |-> info.victimFrame, branch |-> "evict"]

(* ---------------------- the walker as a function ------------------------ *)
\* walk with the create flag ignored
giveUpNever(create) == FALSE

\* line 239
giveUp(create) == ~create

\* Result: [m, found, leafFrame, defined]. On a miss leafFrame_out is not
\* assigned: leafFrame is UINT64_MAX then and stands for no frame. defined is
\* FALSE when allocateFrame entered its eviction branch with no victim.
RECURSIVE walkFrom(_, _, _, _, _)
walkFrom(m, va, create, f, lvl) ==
    IF lvl >= TABLES_DEPTH
    THEN [m |-> m, found |-> TRUE, leafFrame |-> f, defined |-> TRUE]
    ELSE LET r == indexAtLevel(va, lvl)
             child == PMread(m, phys(f, r))
         IN  IF child # 0
             THEN walkFrom(m, va, create, child, lvl + 1)
             ELSE IF giveUp(create)
             THEN [m |-> m, found |-> FALSE, leafFrame |-> UINT64_MAX, defined |-> TRUE]
             ELSE LET leaf == (lvl + 1 = TABLES_DEPTH)
                      a == allocateFrame(m, f, r, pageOf(va), leaf)
                      filled == IF leaf THEN PMrestore(a.m, a.frame, pageOf(va))
                                        ELSE clearFrame(a.m, a.frame, FALSE)
                  IN  IF a.branch = "novictim"
                      THEN [m |-> m, found |-> FALSE, leafFrame |-> UINT64_MAX,
                            defined |-> FALSE]
                      ELSE walkFrom(PMwrite(filled, phys(f, r), a.frame), va, create,
                                    a.frame, lvl + 1)

walk(m, va, create) == walkFrom(m, va, create, ZERO, 0)

(* ------------------------------- state --------------------------------- *)
mem == [RAM |-> RAM, swapFile |-> swapFile, calls |-> calls]

noSnapshot == [RAM |-> <<>>, swapFile |-> <<>>, ncalls |-> 0]

noOp == [kind |-> "none", va |-> 0, value |-> 0]

\* Physical memory starts zeroed and the swap store empty.
InitWith(configs) ==
    /\ cfg \in configs
    /\ RAM = [a \in 0 .. cfg.NUM_FRAMES * (2 ^ cfg.OFFSET_WIDTH) - 1 |-> 0]
    /\ swapFile = [p \in 0 .. 2 ^ (cfg.OFFSET_WIDTH * cfg.TABLES_DEPTH) - 1 |-> <<>>]
    /\ pc = "boot"
    /\ op = noOp
    /\ level = 0
    /\ frame = 0
    /\ newFrame = 0
    /\ path = <<>>
    /\ branch = "none"
    /\ calls = <<>>
    /\ result = [ret |-> 0, value |-> 0]
    /\ shadow = [a \in 0 .. (2 ^ (cfg.OFFSET_WIDTH * (cfg.TABLES_DEPTH + 1))) - 1 |-> -1]
    /\ trace = <<>>
    /\ atEntry = [RAM |-> RAM, swapFile |-> swapFile]
    /\ before = noSnapshot

Init == InitWith(ValidConfigs)

\* every address in range, and the first one out of range
Addresses == 0 .. VIRTUAL_MEMORY_SIZE

opsAllowed == IF TABLES_DEPTH >= 3 THEN MaxOpsDeep ELSE MaxOps

setMem(m) ==
    /\ RAM' = m.RAM
    /\ swapFile' = m.swapFile
    /\ calls' = m.calls

(* ----------------------------- public API ------------------------------ *)
VMinitialize ==
    /\ pc = "boot"
    /\ RAM' = clearFrame(mem, 0, FALSE).RAM
    /\ pc' = "idle"
    /\ atEntry' = [RAM |-> RAM', swapFile |-> swapFile]
    /\ before' = noSnapshot
    /\ UNCHANGED <<cfg, swapFile, op, level, frame, newFrame, path, branch, calls, result,
                   shadow, trace>>

\* rangeError with > for >=
rangeErrorOffByOne(virtualAddress) == virtualAddress > VIRTUAL_MEMORY_SIZE

rangeError(virtualAddress) == virtualAddress >= VIRTUAL_MEMORY_SIZE

\* VMread and VMwrite as functions of the memory state: [m, ret, value]
VMcall(m, kind, virtualAddress, value) ==
    IF rangeError(virtualAddress) THEN [m |-> m, ret |-> ZERO, value |-> 0]
    ELSE LET w == walk(m, virtualAddress, TRUE)
             a == phys(w.leafFrame, offsetOf(virtualAddress))
         IN  IF kind = "read"
             THEN [m |-> w.m, ret |-> 1, value |-> PMread(w.m, a)]
             ELSE [m |-> PMwrite(w.m, a, value), ret |-> 1, value |-> 0]

\* lines 284 and 303, then the entry into walk (line 228)
enter(kind, virtualAddress, value) ==
    /\ pc \in {"idle", "done"}
    /\ Len(trace) < opsAllowed
    /\ trace' = Append(trace, <<kind, virtualAddress>>)
    /\ op' = [kind |-> kind, va |-> virtualAddress, value |-> value]
    /\ calls' = <<>>
    /\ branch' = "none"
    /\ newFrame' = 0
    /\ level' = 0
    /\ frame' = ZERO
    /\ IF rangeError(virtualAddress)
       THEN /\ pc' = "done"
            /\ path' = <<>>
            /\ result' = [ret |-> ZERO, value |-> 0]
       ELSE /\ pc' = "walk"
            /\ path' = <<ZERO>>
            /\ result' = [ret |-> -1, value |-> 0]
    /\ atEntry' = [RAM |-> RAM, swapFile |-> swapFile]
    /\ before' = noSnapshot
    /\ UNCHANGED <<cfg, RAM, swapFile, shadow>>

VMread == \E a \in Addresses : enter("read", a, 0)

\* Words are opaque to the code; every write carries a value no earlier
\* write of the run used, so that a read tells the writes apart.
VMwrite == \E a \in Addresses : enter("write", a, Len(trace) + 1)

\* line 290
ReadWord ==
    /\ pc = "access"
    /\ op.kind = "read"
    /\ result' = [ret |-> 1, value |-> PMread(mem, phys(frame, offsetOf(op.va)))]
    /\ pc' = "done"
    /\ UNCHANGED <<cfg, RAM, swapFile, op, level, frame, newFrame, path, branch, calls,
                   shadow, trace, atEntry, before>>

\* line 308
WriteWord ==
    /\ pc = "access"
    /\ op.kind = "write"
    /\ setMem(PMwrite(mem, phys(frame, offsetOf(op.va)), op.value))
    /\ shadow' = [shadow EXCEPT ![op.va] = op.value]
    /\ result' = [ret |-> 1, value |-> 0]
    /\ pc' = "done"
    /\ UNCHANGED <<cfg, op, level, frame, newFrame, path, branch, trace, atEntry, before>>

(* ------------------------------- walker -------------------------------- *)
row == indexAtLevel(op.va, level)
isLeaf == (level + 1 = TABLES_DEPTH)

descend(child) ==
    /\ frame' = child
    /\ path' = Append(path, child)
    /\ level' = level + 1
    /\ pc' = IF level + 1 < TABLES_DEPTH THEN "walk" ELSE "access"

\* lines 235-237, 257: the entry is bound
WalkDescend ==
    /\ pc = "walk"
    /\ PMread(mem, phys(frame, row)) # 0
    /\ descend(PMread(mem, phys(frame, row)))
    /\ UNCHANGED <<cfg, RAM, swapFile, op, newFrame, branch, calls, result, shadow, trace,
                   atEntry, before>>

allocation == allocateFrame(mem, frame, row, pageOf(op.va), isLeaf)

\* lines 237-243: page fault on this row (create is always true)
fault == pc = "walk" /\ PMread(mem, phys(frame, row)) = 0

Allocate(a, b) ==
    /\ a.branch = b
    /\ setMem(a.m)
    /\ newFrame' = a.frame
    /\ branch' = b
    /\ pc' = "fill"
    /\ before' = [RAM |-> RAM, swapFile |-> swapFile, ncalls |-> Len(calls)]
    /\ UNCHANGED <<cfg, op, level, frame, path, result, shadow, trace, atEntry>>

AllocReuse ==
    /\ fault
    /\ Allocate(allocation, "reuse")

\* AllocFresh with any unreferenced frame above maxFrame taken, not the lowest
AllocFreshAnyFree ==
    /\ fault
    /\ allocation.branch = "fresh"
    /\ \E f \in allocation.frame .. NUM_FRAMES - 1 :
          Allocate([m |-> clearFrame(mem, f, isLeaf), frame |-> f, branch |-> "fresh"],
                   "fresh")

AllocFresh ==
    /\ fault
    /\ Allocate(allocation, "fresh")

AllocEvict ==
    /\ fault
    /\ Allocate(allocation, "evict")

\* the eviction branch with victimFrame = UINT64_MAX: out-of-bounds accesses
\* in PMevict and PMwrite; nothing is known about what follows
AllocNoVictim ==
    /\ fault
    /\ allocation.branch = "novictim"
    /\ pc' = "undefined"
    /\ branch' = "novictim"
    /\ UNCHANGED <<cfg, RAM, swapFile, op, level, frame, newFrame, path, calls, result,
                   shadow, trace, atEntry, before>>

\* lines 245-248, 254-257: the page is brought from swap, then linked
LinkLeaf ==
    /\ pc = "fill"
    /\ isLeaf
    /\ setMem(PMwrite(PMrestore(mem, newFrame, pageOf(op.va)), phys(frame, row), newFrame))
    /\ descend(newFrame)
    /\ before' = noSnapshot
    /\ UNCHANGED <<cfg, op, newFrame, branch, result, shadow, trace, atEntry>>

\* lines 249-257: the table is emptied, then linked
LinkTable ==
    /\ pc = "fill"
    /\ ~isLeaf
    /\ setMem(PMwrite(clearFrame(mem, newFrame, FALSE), phys(frame, row), newFrame))
    /\ descend(newFrame)
    /\ before' = noSnapshot
    /\ UNCHANGED <<cfg, op, newFrame, branch, result, shadow, trace, atEntry>>

Next ==
    \/ VMinitialize
    \/ VMread
    \/ VMwrite
    \/ WalkDescend
    \/ AllocReuse
    \/ AllocFresh
    \/ AllocEvict
    \/ LinkLeaf
    \/ LinkTable
    \/ ReadWord
    \/ WriteWord

Spec == Init /\ [][Next]_vars

\* Builds with frames to spare.
InitRoomy == InitWith(RoomyConfigs)
SpecRoomy == InitRoomy /\ [][Next]_vars

\* Builds with too few frames as well: the allocator can be left without
\* any of its three priorities.
InitAnyFrames == InitWith(AnyConfigs)
NextAnyFrames == Next \/ AllocNoVictim
SpecAnyFrames == InitAnyFrames /\ [][NextAnyFrames]_vars

\* The example scenarios of the 16-page build: writes to the first word of
\* pages 0, 4 and 8, in any order.
InitScenario == InitWith(ScenarioConfigs)

VMwriteScenario ==
    /\ Len(trace) < ScenarioOps
    /\ \E p \in ScenarioPages : enter("write", p * PAGE_SIZE, Len(trace) + 1)

NextScenario ==
    \/ VMinitialize
    \/ VMwriteScenario
    \/ WalkDescend
    \/ AllocReuse
    \/ AllocFresh
    \/ AllocEvict
    \/ LinkLeaf
    \/ LinkTable
    \/ WriteWord

SpecScenario == InitScenario /\ [][NextScenario]_vars

\* A build with one table level and a spare frame, and one with two levels.
InitReplay == InitWith(ReplayConfigs)
SpecReplay == InitReplay /\ [][Next]_vars

\* walk(va, false, leafFrame) called between two public calls, on any
\* in-range address: pc = "lookup" is walk's loop with create = false. What it
\* returns is kept in result (ret: found, value: the leaf frame when found).
InitLookup == InitWith(LookupConfigs)

Lookup ==
    /\ pc \in {"idle", "done"}
    /\ Len(trace) < opsAllowed
    /\ \E va \in 0 .. VIRTUAL_MEMORY_SIZE - 1 :
          op' = [kind |-> "lookup", va |-> va, value |-> 0]
    /\ pc' = "lookup"
    /\ calls' = <<>>
    /\ branch' = "none"
    /\ newFrame' = 0
    /\ level' = 0
    /\ frame' = ZERO
    /\ path' = <<ZERO>>
    /\ result' = [ret |-> -1, value |-> 0]
    /\ atEntry' = [RAM |-> RAM, swapFile |-> swapFile]
    /\ before' = noSnapshot
    /\ UNCHANGED <<cfg, RAM, swapFile, shadow, trace>>

\* lines 235-239, 257-260, create = false
LookupStep ==
    /\ pc = "lookup"
    /\ LET child == PMread(mem, phys(frame, row))
       IN  IF child = 0
           THEN IF giveUp(FALSE)
                THEN /\ pc' = "looked"
                     /\ result' = [ret |-> 0, value |-> 0]
                     /\ UNCHANGED <<level, frame, path>>
                ELSE /\ pc' = "walk"
                     /\ UNCHANGED <<result, level, frame, path>>
           ELSE /\ frame' = child
                /\ path' = Append(path, child)
                /\ level' = level + 1
                /\ IF level + 1 < TABLES_DEPTH
                   THEN pc' = "lookup" /\ UNCHANGED result
                   ELSE pc' = "looked" /\ result' = [ret |-> 1, value |-> child]
    /\ UNCHANGED <<cfg, RAM, swapFile, op, newFrame, branch, calls, shadow, trace,
                   atEntry, before>>

NextLookup ==
    \/ Next
    \/ Lookup
    \/ LookupStep

SpecLookup == InitLookup /\ [][NextLookup]_vars

\* cyclicDistance applied to any two page numbers of the build; the call and
\* its mirror image are kept in op and result.
InitDistance == InitWith(DistanceConfigs)

CyclicDistance ==
    /\ pc \in {"idle", "measured"}
    /\ \E a, b \in 0 .. NUM_PAGES - 1 :
          /\ op' = [kind |-> "distance", va |-> a, value |-> b]
          /\ result' = [ret |-> cyclicDistance(a, b), value |-> cyclicDistance(b, a)]
    /\ pc' = "measured"
    /\ UNCHANGED <<cfg, RAM, swapFile, level, frame, newFrame, path, branch, calls,
                   shadow, trace, atEntry, before>>

NextDistance ==
    \/ VMinitialize
    \/ CyclicDistance

SpecDistance == InitDistance /\ [][NextDistance]_vars

(* ======================================================================= *)
(*                              Properties                                 *)
(* ======================================================================= *)
(* The tree as the entries of physical memory describe it, read off a RAM  *)
(* snapshot without going through scan or walk.                            *)
Rows == 0 .. PAGE_SIZE - 1

\* the digit of a page number that selects the row at a level, 0 = topmost
digit(page, lvl) == (page \div (PAGE_SIZE ^ (TABLES_DEPTH - 1 - lvl))) % PAGE_SIZE

RECURSIVE tablesAt(_, _)
\* table frames reachable from the root at depth d, with the digits leading to them
tablesAt(ram, d) ==
    IF d = 0 THEN { [frame |-> 0, prefix |-> 0] }
    ELSE { [frame |-> ram[x[1].frame * PAGE_SIZE + x[2]],
            prefix |-> x[1].prefix * PAGE_SIZE + x[2]] :
           x \in { y \in tablesAt(ram, d - 1) \X Rows :
                     ram[y[1].frame * PAGE_SIZE + y[2]] # 0 } }

entriesAt(ram, d) ==
    { [parent |-> x[1].frame, row |-> x[2], child |-> ram[x[1].frame * PAGE_SIZE + x[2]],
       prefix |-> x[1].prefix * PAGE_SIZE + x[2], depth |-> d + 1] :
      x \in { y \in tablesAt(ram, d) \X Rows : ram[y[1].frame * PAGE_SIZE + y[2]] # 0 } }

\* every BOUND entry reachable from the root
entries(ram) == UNION { entriesAt(ram, d) : d \in 0 .. TABLES_DEPTH - 1 }

leafEntries(ram) == { e \in entries(ram) : e.depth = TABLES_DEPTH }

residentPages(ram) == { e.prefix : e \in leafEntries(ram) }

inWalk == pc \in {"walk", "fill", "access", "done"} /\ ~rangeError(op.va)

hasCall(fn) == \E i \in 1 .. Len(calls) : calls[i][1] = fn

\* C1 (round trip): a VMread of an in-range address that some earlier VMwrite
\* wrote returns success and yields the value of the last such write, whatever
\* reads, writes, evictions and restorations came in between.
RoundTrip ==
    (pc = "done" /\ op.kind = "read" /\ ~rangeError(op.va) /\ shadow[op.va] # -1)
        => (result.ret = 1 /\ result.value = shadow[op.va])

\* a read gets a written value back from a page that had to be restored
RoundTripWitness ==
    /\ pc = "done" /\ op.kind = "read" /\ ~rangeError(op.va)
    /\ shadow[op.va] # -1
    /\ hasCall("PMrestore")
    /\ atEntry.swapFile[pageOf(op.va)] # <<>>
    /\ result.value = shadow[op.va]

\* C2 (range error): a call with an address >= VIRTUAL_MEMORY_SIZE returns 0,
\* makes no PMwrite, PMevict or PMrestore call, and leaves physical memory and
\* the swap store as they were on entry.
RangeError ==
    (pc = "done" /\ op.va >= VIRTUAL_MEMORY_SIZE)
        => /\ result.ret = 0
           /\ calls = <<>>
           /\ RAM = atEntry.RAM
           /\ swapFile = atEntry.swapFile

\* an out-of-range write returned, with pages resident and a page in swap
RangeErrorWitness ==
    /\ pc = "done" /\ op.kind = "write" /\ op.va >= VIRTUAL_MEMORY_SIZE
    /\ result.ret = 0
    /\ residentPages(RAM) # {}
    /\ \E p \in DOMAIN swapFile : swapFile[p] # <<>>

\* the part of the chain root -> leaf the walk has gone through is bound
chainUpTo(n) ==
    /\ Len(path) = n + 1
    /\ path[1] = 0
    /\ \A l \in 0 .. n - 1 :
          /\ path[l + 2] # 0
          /\ RAM[path[l + 1] * PAGE_SIZE + digit(pageOf(op.va), l)] = path[l + 2]

\* C3 (transparent fault resolution): an in-range call returns success with
\* a complete chain of BOUND entries root -> leaf for its page, one per level,
\* selected by the page's digits; the chain ends at the frame whose word was
\* read or written; during the walk no allocation returns, detaches or evicts
\* a frame the walk already went through.
TransparentFaultResolution ==
    inWalk =>
        /\ chainUpTo(level)
        /\ frame = path[level + 1]
        /\ pc = "fill" => \A i \in 1 .. Len(path) : path[i] # newFrame
        /\ pc \in {"access", "done"} => level = TABLES_DEPTH
        /\ pc = "done" =>
              /\ result.ret = 1
              /\ op.kind = "read" =>
                    result.value = RAM[frame * PAGE_SIZE + (op.va % PAGE_SIZE)]
              /\ op.kind = "write" =>
                    /\ calls[Len(calls)] =
                          <<"PMwrite", frame * PAGE_SIZE + (op.va % PAGE_SIZE), op.value>>
                    /\ RAM[frame * PAGE_SIZE + (op.va % PAGE_SIZE)] = op.value

\* a call returned whose walk evicted at one level and allocated again below it
TransparentWitness ==
    /\ pc = "done" /\ ~rangeError(op.va)
    /\ hasCall("PMevict")
    /\ branch = "reuse"
    /\ TABLES_DEPTH >= 2
    /\ chainUpTo(TABLES_DEPTH)

\* C4 (uniqueness): in every reachable state, the states inside a walk
\* included, no two entries of the tree hold the same non-zero frame index.
Uniqueness ==
    \A e1, e2 \in entries(RAM) :
        e1.child = e2.child => (e1.parent = e2.parent /\ e1.row = e2.row)

\* between the eviction write and the link write, with other entries bound
UniquenessWitness ==
    /\ pc = "fill" /\ branch = "evict"
    /\ Cardinality(entries(RAM)) >= 2
    /\ \A e \in entries(RAM) : e.child # newFrame

\* C5 (root invariance): allocateFrame never returns frame 0, in any of its
\* branches, so no entry is ever bound to the root.
RootInvariance ==
    pc = "fill" => (newFrame # 0 /\ branch \in {"reuse", "fresh", "evict"})

\* all three branches have produced a frame in one run: the last by reuse,
\* after an eviction, in a tree built from fresh frames
RootInvarianceWitness ==
    /\ pc = "fill" /\ branch = "reuse" /\ newFrame # 0
    /\ hasCall("PMevict")

Maximum(S) == CHOOSE x \in S : \A y \in S : y <= x
Minimum(S) == CHOOSE x \in S : \A y \in S : x <= y

\* highest frame index an entry of the tree holds, 0 for the bare root
maxReferenced(ram) == Maximum({0} \cup { e.child : e \in entries(ram) })

\* non-root tables all of whose entries are zero, the parent being filled
\* left out, each with its depth
emptyTables(ram, parent) ==
    UNION { { [frame |-> t.frame, prefix |-> t.prefix, depth |-> d] :
              t \in { u \in tablesAt(ram, d) :
                        /\ u.frame # parent
                        /\ \A r \in Rows : ram[u.frame * PAGE_SIZE + r] = 0 } } :
            d \in 1 .. TABLES_DEPTH - 1 }

\* the position of an empty table in depth-first, ascending-row order
dfsKey(t) == t.prefix * (PAGE_SIZE ^ (TABLES_DEPTH - t.depth))

firstEmpty(ram, parent) ==
    CHOOSE t \in emptyTables(ram, parent) :
        \A u \in emptyTables(ram, parent) : dfsKey(t) <= dfsKey(u)

ringDistance(a, b) ==
    LET d == IF a >= b THEN a - b ELSE b - a
    IN  IF d <= NUM_PAGES - d THEN d ELSE NUM_PAGES - d

\* the PMevict calls of the last allocateFrame call
evictCalls ==
    SelectSeq(SubSeq(calls, before.ncalls + 1, Len(calls)), LAMBDA c : c[1] = "PMevict")

justAllocated == pc = "fill"

EvictionOnlyWhenFull ==
    (justAllocated /\ (branch = "evict" \/ evictCalls # <<>>))
        => /\ maxReferenced(before.RAM) + 1 >= NUM_FRAMES
           /\ emptyTables(before.RAM, frame) = {}

\* an eviction out of a tree with several pages resident
EvictionOnlyWhenFullWitness ==
    /\ justAllocated /\ branch = "evict"
    /\ Len(evictCalls) >= 1
    /\ Cardinality(residentPages(before.RAM)) >= 2

\* C8 (priority ordering): when the tree scanned holds an empty non-root
\* table other than the parent being filled, allocateFrame returns the first
\* such table in depth-first order, the entry that referenced it is zeroed,
\* and no fresh frame is taken and no page evicted.
PriorityOrdering ==
    (justAllocated /\ emptyTables(before.RAM, frame) # {})
        => /\ branch = "reuse"
           /\ newFrame = firstEmpty(before.RAM, frame).frame
           /\ \A e \in entries(before.RAM) :
                 e.child = newFrame => RAM[e.parent * PAGE_SIZE + e.row] = 0
           /\ \E e \in entries(before.RAM) : e.child = newFrame
           /\ swapFile = before.swapFile
           /\ \A i \in before.ncalls + 1 .. Len(calls) : calls[i][1] # "PMevict"

\* an empty table was reused, and detached from the root's own entry or another
PriorityOrderingWitness ==
    /\ justAllocated /\ branch = "reuse"
    /\ emptyTables(before.RAM, frame) # {}
    /\ \E e \in entries(before.RAM) : e.child = newFrame /\ RAM[e.parent * PAGE_SIZE + e.row] = 0

\* C9 (victim selection): the page allocateFrame passes to PMevict is a page
\* resident in the tree it scanned, held by the frame it passes, at maximal
\* cyclic distance min(|p - target|, NUM_PAGES - |p - target|) from the target
\* page, and the first such page in depth-first, ascending-row order.
VictimSelection ==
    (justAllocated /\ branch = "evict")
        => /\ Len(evictCalls) = 1
           /\ LET f == evictCalls[1][2]
                  p == evictCalls[1][3]
                  target == op.va \div PAGE_SIZE
              IN  /\ f = newFrame
                  /\ \E e \in leafEntries(before.RAM) : e.prefix = p /\ e.child = f
                  /\ \A q \in residentPages(before.RAM) :
                        /\ ringDistance(q, target) <= ringDistance(p, target)
                        /\ ringDistance(q, target) = ringDistance(p, target) => p <= q

\* two resident pages are equally far and farthest; the first one goes
VictimSelectionWitness ==
    /\ justAllocated /\ branch = "evict"
    /\ Len(evictCalls) = 1
    /\ \E q \in residentPages(before.RAM) :
          /\ q > evictCalls[1][3]
          /\ ringDistance(q, op.va \div PAGE_SIZE)
                = ringDistance(evictCalls[1][3], op.va \div PAGE_SIZE)

\* the scenario's calls so far are writes to the first words of these pages
wrotePages(pages) ==
    /\ Len(trace) = Len(pages)
    /\ \A i \in 1 .. Len(pages) : trace[i] = <<"write", pages[i] * PAGE_SIZE>>

\* the pages the current public call evicted, in order
evictedByCall ==
    LET ev == SelectSeq(calls, LAMBDA c : c[1] = "PMevict")
    IN  [i \in 1 .. Len(ev) |-> ev[i][3]]

\* C10 (example scenario 2) as claimed: 16 pages, 3 frames; after the writes
\* to pages 0 and 4 both pages are resident, and the write to page 8 evicts
\* page 0.
Scenario2AsClaimed ==
    (cfg = Config(2, 2, 3) /\ pc = "done") =>
        /\ wrotePages(<<0, 4>>) => residentPages(RAM) = {0, 4}
        /\ wrotePages(<<0, 4, 8>>) => evictedByCall = <<0>>

\* C10 as amended: with 3 frames one chain root -> table -> leaf fills memory,
\* so the write to page 4 already evicts page 0 and leaves page 4 alone
\* resident, and the write to page 8 evicts page 4. With 5 frames pages 0 and
\* 4 are both resident before the write to page 8, which evicts page 0, the
\* farther of the two (distance 8 against 4), and nothing else.
Scenario2 ==
    pc = "done" =>
        /\ (cfg = Config(2, 2, 3) /\ wrotePages(<<0, 4>>)) =>
              (evictedByCall = <<0>> /\ residentPages(RAM) = {4})
        /\ (cfg = Config(2, 2, 3) /\ wrotePages(<<0, 4, 8>>)) =>
              (evictedByCall = <<4>> /\ residentPages(RAM) = {8})
        /\ (cfg = Config(2, 2, 5) /\ wrotePages(<<0, 4>>)) =>
              (evictedByCall = <<>> /\ residentPages(RAM) = {0, 4})
        /\ (cfg = Config(2, 2, 5) /\ wrotePages(<<0, 4, 8>>)) =>
              ( /\ evictedByCall = <<0>>
                /\ ringDistance(0, 8) = 8 /\ ringDistance(4, 8) = 4
                /\ residentPages(atEntry.RAM) = {0, 4}
                /\ residentPages(RAM) = {4, 8} )

\* the 5-frame run of the scenario has returned from the write to page 8
Scenario2Witness ==
    /\ cfg = Config(2, 2, 5) /\ pc = "done"
    /\ wrotePages(<<0, 4, 8>>)
    /\ evictedByCall = <<0>>

\* C11 (cyclic distance correctness): for all page numbers a, b in
\* [0, NUM_PAGES), cyclicDistance(a, b) = cyclicDistance(b, a), the distance is
\* at most NUM_PAGES / 2, and it is 0 only when a = b.
CyclicDistanceCorrect ==
    pc = "measured" =>
        /\ result.ret = result.value
        /\ result.ret >= 0
        /\ result.ret <= NUM_PAGES \div 2
        /\ (result.ret = 0) <=> (op.va = op.value)

\* two pages opposite each other on a ring of 8 or more, the larger one first
CyclicDistanceWitness ==
    /\ pc = "measured"
    /\ NUM_PAGES >= 8
    /\ op.va > op.value
    /\ result.ret = NUM_PAGES \div 2
    /\ result.value = NUM_PAGES \div 2

\* the memory state of a run after VMinitialize: zeroed, nothing in swap
RECURSIVE blank(_, _, _)
\* function f with every value from index i on replaced by v
blank(f, i, v) == IF i \notin DOMAIN f THEN f ELSE blank([f EXCEPT ![i] = v], i + 1, v)

afterInitialize ==
    [RAM |-> blank(RAM, 0, 0), swapFile |-> blank(swapFile, 0, <<>>), calls |-> <<>>]

RECURSIVE replay(_)
\* the outcome of the n-th call of trace in a run of its own, made of the
\* first n calls of trace after VMinitialize; the n-th write writes n
replay(n) ==
    IF n = 0 THEN [m |-> afterInitialize, ret |-> 0, value |-> 0]
    ELSE LET prev == replay(n - 1).m
         IN  VMcall([RAM |-> prev.RAM, swapFile |-> prev.swapFile, calls |-> <<>>],
                    trace[n][1], trace[n][2], n)

holdsPage(words, page) ==
    \A o \in Rows :
        shadow[page * PAGE_SIZE + o] # -1 => words[o] = shadow[page * PAGE_SIZE + o]

\* C13 (page identity of leaves): between operations every leaf entry of the
\* tree either was there, under the same digits and with the same frame, when
\* the call was entered, or was bound by this call with PMrestore passed its
\* frame and the page number its digits spell (so, call after call, the digits
\* of a leaf spell the page it was restored for), and the frame holds that
\* page's words; every PMevict(frame, page) passes the page whose digits lead
\* to the frame in the tree scanned, and the copy it leaves in the swap store
\* is that page's words.
PageIdentity ==
    /\ (pc = "done" /\ op.va < VIRTUAL_MEMORY_SIZE) =>
          /\ \A e \in leafEntries(RAM) :
                /\ \/ e \in leafEntries(atEntry.RAM)
                   \/ \E i \in 1 .. Len(calls) : calls[i] = <<"PMrestore", e.child, e.prefix>>
                /\ holdsPage([o \in Rows |-> RAM[e.child * PAGE_SIZE + o]], e.prefix)
          /\ \A i \in 1 .. Len(calls) :
                calls[i][1] = "PMrestore" =>
                    /\ calls[i][3] = op.va \div PAGE_SIZE
                    /\ \E e \in leafEntries(RAM) :
                          e.child = calls[i][2] /\ e.prefix = calls[i][3]
          /\ \A q \in DOMAIN swapFile :
                swapFile[q] # <<>> => holdsPage(swapFile[q][1], q)
    /\ justAllocated =>
          \A i \in 1 .. Len(evictCalls) :
              /\ \E e \in leafEntries(before.RAM) :
                    e.child = evictCalls[i][2] /\ e.prefix = evictCalls[i][3]
              /\ swapFile[evictCalls[i][3]] # <<>>
              /\ holdsPage(swapFile[evictCalls[i][3]][1], evictCalls[i][3])

\* a call that evicted one written page and restored another, written
\* earlier, from the swap store
PageIdentityWitness ==
    /\ pc = "done" /\ op.va < VIRTUAL_MEMORY_SIZE
    /\ hasCall("PMevict") /\ hasCall("PMrestore")
    /\ atEntry.swapFile[op.va \div PAGE_SIZE] # <<>>
    /\ \E o \in Rows : shadow[(op.va \div PAGE_SIZE) * PAGE_SIZE + o] # -1
    /\ \E q \in DOMAIN swapFile :
          swapFile[q] # <<>> /\ \E o \in Rows : shadow[q * PAGE_SIZE + o] # -1

\* C14 (frame bounds): in a build with NUM_FRAMES > TABLES_DEPTH, every frame
\* index allocateFrame returns lies in [1, NUM_FRAMES), the fresh-frame branch
\* returns the highest referenced index plus one and only when that is below
\* NUM_FRAMES, and every non-zero entry of every table of the tree is a frame
\* index in [1, NUM_FRAMES).
FrameBounds ==
    (NUM_FRAMES > TABLES_DEPTH) =>
        /\ justAllocated => (1 <= newFrame /\ newFrame < NUM_FRAMES)
        /\ (justAllocated /\ branch = "fresh") =>
              /\ newFrame = maxReferenced(before.RAM) + 1
              /\ maxReferenced(before.RAM) + 1 < NUM_FRAMES
        /\ \A e \in entries(RAM) : 1 <= e.child /\ e.child < NUM_FRAMES

\* the fresh-frame branch has handed out the last frame of the build
FrameBoundsWitness ==
    /\ NUM_FRAMES > TABLES_DEPTH
    /\ justAllocated /\ branch = "fresh"
    /\ newFrame = NUM_FRAMES - 1
    /\ maxReferenced(before.RAM) = NUM_FRAMES - 2

\* the table frames of a tree, the root included
tableFrames(ram) == UNION { { t.frame : t \in tablesAt(ram, d) } : d \in 0 .. TABLES_DEPTH - 1 }

\* the entries, BOUND or EMPTY, of the tables of the scanned tree whose word
\* the allocateFrame call changed
changedEntries ==
    { x \in tableFrames(before.RAM) \X Rows :
        RAM[x[1] * PAGE_SIZE + x[2]] # before.RAM[x[1] * PAGE_SIZE + x[2]] }

\* C15 (eviction leaves siblings intact): when allocateFrame evicts a victim
\* or detaches an empty table for reuse, exactly one entry of the tables of
\* the tree it scanned changes: the entry that referenced the frame returned,
\* which goes from BOUND to EMPTY. Every other entry of every table keeps its
\* value, so the other pages stay mapped to the frames they were in.
SiblingsIntact ==
    (justAllocated /\ branch \in {"evict", "reuse"}) =>
        /\ \E e \in entries(before.RAM) :
              /\ e.child = newFrame
              /\ changedEntries = { <<e.parent, e.row>> }
              /\ RAM[e.parent * PAGE_SIZE + e.row] = 0
              /\ entries(RAM) = entries(before.RAM) \ {e}
        /\ branch = "evict" =>
              \E e \in leafEntries(before.RAM) :
                  /\ e.child = newFrame
                  /\ leafEntries(RAM) = leafEntries(before.RAM) \ {e}

\* a page was evicted out of a table that keeps another page bound
SiblingsIntactWitness ==
    /\ justAllocated /\ branch = "evict"
    /\ \E e \in leafEntries(before.RAM), e2 \in leafEntries(RAM) :
          /\ e.child = newFrame
          /\ e2.parent = e.parent /\ e2.row # e.row
          /\ e2 \in leafEntries(before.RAM)

\* walk has just written the index of a newly allocated frame into the
\* parent's entry and moved on to that frame
justLinked == pc \in {"walk", "access"} /\ branch # "none" /\ frame = newFrame

\* the calls of kind fn the current public call made
callsOf(fn) == SelectSeq(calls, LAMBDA c : c[1] = fn)

\* C16 (clearing policy): when walk binds a newly allocated table frame, all
\* PAGE_SIZE words of the frame are 0 as its index is written into the
\* parent's entry; when it binds a newly allocated leaf frame, allocateFrame
\* has written no word of that frame, and PMrestore(frame, target page) is
\* called exactly once between the allocation and the write of the entry.
ClearingPolicy ==
    /\ (justAllocated /\ isLeaf) =>
          /\ \A i \in before.ncalls + 1 .. Len(calls) :
                calls[i][1] = "PMwrite" => calls[i][2] \div PAGE_SIZE # newFrame
          /\ \A o \in Rows :
                RAM[newFrame * PAGE_SIZE + o] = before.RAM[newFrame * PAGE_SIZE + o]
          /\ callsOf("PMrestore") = <<>>
    /\ (justLinked /\ pc = "walk") =>
          /\ \A o \in Rows : RAM[frame * PAGE_SIZE + o] = 0
          /\ calls[Len(calls)][1] = "PMwrite"
          /\ calls[Len(calls)][2] \div PAGE_SIZE = path[Len(path) - 1]
          /\ calls[Len(calls)][3] = frame
    /\ (justLinked /\ pc = "access") =>
          /\ callsOf("PMrestore") = << <<"PMrestore", frame, op.va \div PAGE_SIZE>> >>
          /\ calls[Len(calls) - 1] = <<"PMrestore", frame, op.va \div PAGE_SIZE>>
          /\ calls[Len(calls)][1] = "PMwrite"
          /\ calls[Len(calls)][2] \div PAGE_SIZE = path[Len(path) - 1]
          /\ calls[Len(calls)][3] = frame

\* a leaf was bound to the frame of an evicted page, written words and all,
\* and a table to a frame freed by an eviction
ClearingPolicyWitness ==
    /\ justLinked /\ pc = "access" /\ branch \in {"evict", "reuse"}
    /\ TABLES_DEPTH >= 2
    /\ hasCall("PMevict")
    /\ atEntry.swapFile[op.va \div PAGE_SIZE] = <<>>
    /\ \E o \in Rows : RAM[frame * PAGE_SIZE + o] # 0

\* C17 (translation miss without creation): walk(va, create = false) makes no
\* PMwrite, PMevict or PMrestore and leaves physical memory and the swap store
\* as they were; it returns false exactly when an entry on the path of va's
\* page is EMPTY, at the first such entry, and true when the whole path is
\* BOUND, with the leaf frame the path leads to, which is the frame walk with
\* create = true returns, also without side effects.
LookupMiss ==
    op.kind = "lookup" =>
        LET page == op.va \div PAGE_SIZE
            created == walk([RAM |-> atEntry.RAM, swapFile |-> atEntry.swapFile,
                             calls |-> <<>>], op.va, TRUE)
        IN  /\ pc \in {"lookup", "looked"}
            /\ calls = <<>>
            /\ RAM = atEntry.RAM
            /\ swapFile = atEntry.swapFile
            /\ chainUpTo(level)
            /\ pc = "looked" =>
                  /\ (result.ret = 0) <=> (page \notin residentPages(RAM))
                  /\ result.ret = 0 =>
                        /\ level < TABLES_DEPTH
                        /\ RAM[path[level + 1] * PAGE_SIZE + digit(page, level)] = 0
                  /\ result.ret = 1 =>
                        /\ \E e \in leafEntries(RAM) :
                              e.prefix = page /\ e.child = result.value
                        /\ created.leafFrame = result.value
                        /\ created.m.calls = <<>>

\* a miss below the root: the first entry of the path is BOUND, the second EMPTY,
\* while another page is resident
LookupMissWitness ==
    /\ pc = "looked" /\ result.ret = 0
    /\ TABLES_DEPTH = 2
    /\ RAM[digit(op.va \div PAGE_SIZE, 0)] # 0
    /\ residentPages(RAM) # {}

\* the frames the current walk went through: the root, ..., the parent
pathFrames == { path[i] : i \in 1 .. Len(path) }

\* C18 (no self-detachment): allocateFrame never returns the parent frame
\* whose entry is being filled nor any frame on the path from the root to it,
\* in any of its three branches, and the entries along that path stay BOUND;
\* the scan never records the parent or a frame of the path as the reuse
\* candidate, an all-zero parent just created by the level before included.
NoSelfDetachment ==
    /\ fault =>
          scan(mem, 0, 0, 0, op.va \div PAGE_SIZE, scanInfo, frame).emptyFrame
              \notin pathFrames
    /\ justAllocated =>
          /\ frame = path[Len(path)]
          /\ newFrame \notin pathFrames
          /\ \A i \in 1 .. Len(path) - 1 :
                \E r \in Rows : RAM[path[i] * PAGE_SIZE + r] = path[i + 1]
          /\ \A i \in before.ncalls + 1 .. Len(calls) :
                calls[i][1] = "PMevict" => calls[i][2] \notin pathFrames

\* the parent is an all-zero table the level before created, another empty
\* table exists, and that one is reused
NoSelfDetachmentWitness ==
    /\ justAllocated /\ branch = "reuse"
    /\ level >= 1
    /\ \A r \in Rows : before.RAM[frame * PAGE_SIZE + r] = 0
    /\ newFrame # frame
    /\ hasCall("PMevict")

\* the frame indices the entries of a tree hold, with the root
referenced(ram) == {0} \cup { e.child : e \in entries(ram) }

\* C19 (no holes, no shrinking): between operations, and at every point of a
\* walk other than between allocateFrame's detach and walk's link write, the
\* frame indices referenced by the tree, with the root, are exactly
\* {0, ..., m} for some m < NUM_FRAMES, and m is at least what it was when
\* the call was entered. An eviction happens only with m = NUM_FRAMES - 1 and
\* leaves m there when the call returns, and the fresh-frame branch is taken
\* only with m < NUM_FRAMES - 1 at the call's entry and after no eviction of
\* the same call: once a page has been evicted no fresh frame is taken again.
NoHolesNoShrinking ==
    /\ pc # "fill" =>
          /\ referenced(RAM) = 0 .. maxReferenced(RAM)
          /\ maxReferenced(RAM) < NUM_FRAMES
          /\ maxReferenced(RAM) >= maxReferenced(atEntry.RAM)
    /\ (justAllocated /\ branch = "evict") =>
          maxReferenced(before.RAM) = NUM_FRAMES - 1
    /\ (pc = "done" /\ hasCall("PMevict")) =>
          maxReferenced(RAM) = NUM_FRAMES - 1
    /\ (justAllocated /\ branch = "fresh") =>
          /\ ~hasCall("PMevict")
          /\ maxReferenced(atEntry.RAM) < NUM_FRAMES - 1
          /\ maxReferenced(before.RAM) < NUM_FRAMES - 1

\* a call that evicted has returned; every frame is referenced, as at its entry
NoHolesWitness ==
    /\ pc = "done" /\ hasCall("PMevict")
    /\ TABLES_DEPTH >= 2
    /\ referenced(RAM) = 0 .. NUM_FRAMES - 1
    /\ referenced(atEntry.RAM) = 0 .. NUM_FRAMES - 1

\* no word of the page has been written since VMinitialize
neverWritten(page) == \A o \in Rows : shadow[page * PAGE_SIZE + o] = -1

\* C20 (no stale data on first touch): with PMrestore leaving the frame as it
\* is when the swap store holds no copy of the page, a VMread of an in-range
\* address whose page has never been written since VMinitialize yields 0,
\* whatever other pages were written before.
NoStaleData ==
    (pc = "done" /\ op.kind = "read" /\ ~rangeError(op.va)
        /\ neverWritten(pageOf(op.va)))
        => (result.ret = 1 /\ result.value = 0)

====
